---- MODULE Spec2Model ----
(***************************************************************************)
(* Model of the moon-phase calculation library `ta` (src/src/core/ta.ts).  *)
(*                                                                         *)
(* Numbers.  TLC has 32-bit integers and no reals, so:                      *)
(*   - a Date's time value is an integer count of ticks (TicksPerSecond    *)
(*     ticks per second) counted from 2000-01-06T00:00:00Z;                 *)
(*   - a Julian Day is the record [half, sec], the number half/2 +         *)
(*     sec/86400 of days;                                                  *)
(*   - a phase, a phase difference and every fractional constant of the    *)
(*     code is an exact rational [n, d] with d > 0.                        *)
(* Arithmetic on these is exact (rational), where the code uses IEEE       *)
(* doubles; the synodic month is rounded to the nearest tick.              *)
(*                                                                         *)
(* Evaluation.  Let(v, LAMBDA x : e) is e with x bound to the value of v:  *)
(* it stands for the code's `const x = v`, and makes v be computed once.   *)
(*                                                                         *)
(* Host.  The Date getters and setters of the code work in the local time  *)
(* zone of the host.  The zone is part of the environment: tz is chosen    *)
(* in Init and never changes.                                               *)
(***************************************************************************)
EXTENDS Integers, Sequences, FiniteSets

VARIABLES tz, pc, op, args, ret, heap, refs,
          tracker, frames, notified, now, calls, settled, started,
          timeline, timers, selected, clicks

\* A caller of the library ta: pc is its position, op the operation called,
\* args the arguments by value, ret the result by value, heap the Date
\* objects of the call in creation order (the arguments first), and refs the
\* places in the heap of the arguments and of the returned Dates.
callVars == <<pc, op, args, ret, heap, refs>>

\* A DateTracker and its surroundings: tracker is the object (its fields),
\* frames the animation-frame callbacks that are requested and not yet run,
\* notified the date last handed to onDateChange, now the clock Date.now(),
\* calls the number of calls made on the tracker, and settled the date of
\* the latest setDate(d, false) while no later call has changed the date.
\* started is the animation begun by the latest animated call, unless
\* stopAnimation() was called since: the number n of the call, its target,
\* the date it started from, and whether a frame has completed it.
trackerVars == <<tracker, frames, notified, now, calls, settled, started>>

\* A Timeline and its surroundings: timeline is the object with its elements
\* (the month display, the track's children in order, the cursor's style),
\* timers the number of callbacks given to setTimeout that have not run,
\* selected the date last handed to onDateSelect, and clicks the number of
\* clicks made on the two month buttons.
timelineVars == <<timeline, timers, selected, clicks>>

vars == <<tz, callVars, trackerVars, timelineVars>>

-----------------------------------------------------------------------------
(* Bounds of the model *)

\* Resolution of a Date's time value: ticks per second.
TicksPerSecond == 10

\* Half the number of grid instants on each side of the origin.
MaxSample == 60

\* Steps taken on each side of a change of the zone's offset.
DstSpan == 3

\* Grid instants on each side of the origin given to daysBetween.
PairSpan == 6

\* Grid instants on each side of the origin given to findPhaseEvents.
RangeSpan == 4

\* Phases below 0 and above 1 given to phaseName, in steps of 1/160.
PhaseOver == 8

\* formatRelativeTime is called with every whole number of days from
\* -DaysSpan to DaysSpan.
DaysSpan == 12

\* The clock of the DateTracker runs from StartClock to MaxClock, in steps
\* of ClockStepMs milliseconds.
MaxClock == 6

\* A DateTracker is called at most MaxCalls times.
MaxCalls == 2

\* A date NearSpan ticks from the tracker's first date is among the
\* arguments of setDate.
NearSpan == 2

\* The month buttons of a Timeline are clicked at most MaxClicks times.
MaxClicks == 2

-----------------------------------------------------------------------------
(* Plain arithmetic helpers *)

\* F applied to the value of v.
Let(v, F(_)) == CHOOSE r \in {F(x) : x \in {v}} : TRUE

Abs(x) == IF x < 0 THEN -x ELSE x

\* JavaScript's % : the remainder takes the sign of the dividend.
JsRem(a, b) == IF a >= 0 THEN a % b ELSE -((-a) % b)

\* Rationals [n, d], d > 0.
Rat(n, d) == [n |-> n, d |-> d]

\* a < b.  Equal denominators are compared directly (the products would not
\* fit 32 bits); the result is the same.
RatLt(a, b) == IF a.d = b.d THEN a.n < b.n ELSE a.n * b.d < b.n * a.d

RatGt(a, b) == RatLt(b, a)

RatLe(a, b) == ~RatLt(b, a)

RatEq(a, b) == ~RatLt(a, b) /\ ~RatLt(b, a)

\* Math.abs(a - b)
RatAbsDiff(a, b) ==
    IF a.d = b.d THEN Rat(Abs(a.n - b.n), a.d)
    ELSE Rat(Abs(a.n * b.d - b.n * a.d), a.d * b.d)

\* 1 - a
RatOneMinus(a) == Rat(a.d - a.n, a.d)

\* The number NaN, as 0/0: every comparison with it is false.
NaNNumber == Rat(0, 0)

-----------------------------------------------------------------------------
(* The host's Date: time values, the local zone, calendar fields *)

SecPerDay == 24 * 60 * 60

TicksPerHour == 60 * 60 * TicksPerSecond

TicksPerDay == SecPerDay * TicksPerSecond

\* The time value of an invalid Date (NaN).
NaNDate == 0 - 2000000000

\* A value that is not a Date object.
NotADate == NaNDate - 1

\* Days from 1970-01-01 to the model's origin 2000-01-06: 30 years, 7 of them
\* leap years, and 5 days.
OriginDay == 30 * 365 + 7 + 5

Zones == {"UTC", "America/New_York"}

\* Standard offset from UTC, in seconds.
StdOffset(z) == IF z = "UTC" THEN 0 ELSE 0 - 5 * 3600

\* Daylight saving in the zone: [from, to) in ticks, one hour forward.
\* New York 2000: 2 April 07:00Z to 29 October 06:00Z.
DstStart(z) == (87 * SecPerDay + 7 * 3600) * TicksPerSecond

DstEnd(z) == (297 * SecPerDay + 6 * 3600) * TicksPerSecond

HasDst(z) == z # "UTC"

\* Offset of local time from UTC at the instant t, in ticks.
OffsetAt(z, t) ==
    (StdOffset(z)
       + (IF HasDst(z) /\ DstStart(z) <= t /\ t < DstEnd(z) THEN 3600 ELSE 0))
    * TicksPerSecond

\* LocalTime(t): the local wall-clock reading of the instant t.
LocalTime(z, t) == t + OffsetAt(z, t)

\* UTC(tl): the instant of a local wall-clock reading.  A reading that occurs
\* twice (clocks set back) is the earlier instant; a reading that is skipped
\* (clocks set forward) is taken with the offset before the transition.
UTC(z, tl) ==
    IF HasDst(z)
       /\ LocalTime(z, tl - (StdOffset(z) + 3600) * TicksPerSecond) = tl
    THEN tl - (StdOffset(z) + 3600) * TicksPerSecond
    ELSE tl - StdOffset(z) * TicksPerSecond

\* Civil date of a day number counted from 1970-01-01 (proleptic Gregorian).
CivilFromDays(z0) ==
    Let(z0 + 719468, LAMBDA z :
    Let(z \div 146097, LAMBDA era :
    Let(z - era * 146097, LAMBDA doe :
    Let((doe - doe \div 1460 + doe \div 36524 - doe \div 146096) \div 365,
        LAMBDA yoe :
    Let(doe - (365 * yoe + yoe \div 4 - yoe \div 100), LAMBDA doy :
    Let((5 * doy + 2) \div 153, LAMBDA mp :
    Let(IF mp < 10 THEN mp + 3 ELSE mp - 9, LAMBDA m :
        [year  |-> yoe + era * 400 + (IF m <= 2 THEN 1 ELSE 0),
         month |-> m,
         day   |-> doy - (153 * mp + 2) \div 5 + 1])))))))

\* Day number, counted from 1970-01-01, of a civil date.
DaysFromCivil(y0, m, d) ==
    Let(IF m <= 2 THEN y0 - 1 ELSE y0, LAMBDA y :
    Let(y \div 400, LAMBDA era :
    Let(y - era * 400, LAMBDA yoe :
    Let((153 * (IF m > 2 THEN m - 3 ELSE m + 9) + 2) \div 5 + d - 1,
        LAMBDA doy :
        era * 146097 + (yoe * 365 + yoe \div 4 - yoe \div 100 + doy)
          - 719468))))

\* The local calendar fields of a Date: getFullYear(), getMonth() + 1,
\* getDate(), getHours(), getMinutes(), getSeconds().
Fields(z, t) ==
    Let(LocalTime(z, t), LAMBDA tl :
    Let((tl % TicksPerDay) \div TicksPerSecond, LAMBDA tod :
    Let(CivilFromDays(tl \div TicksPerDay + OriginDay), LAMBDA c :
        [year |-> c.year, month |-> c.month, day |-> c.day,
         hour |-> tod \div 3600, minute |-> (tod \div 60) % 60,
         second |-> tod % 60])))

\* new Date(year, monthIndex, day): local midnight of a civil date.
DateOfLocalDay(z, y, m, d) ==
    UTC(z, (DaysFromCivil(y, m, d) - OriginDay) * TicksPerDay)

\* date.setDate(date.getDate() + n)
SetDatePlus(z, t, n) == UTC(z, LocalTime(z, t) + n * TicksPerDay)

\* date.setHours(date.getHours() + n)
SetHoursPlus(z, t, n) == UTC(z, LocalTime(z, t) + n * TicksPerHour)

-----------------------------------------------------------------------------
(* ta.validateDate *)

\* if (!(date instanceof Date) || isNaN(date.getTime())) throw
validateDate(date) == ~(date = NotADate \/ date = NaNDate)

-----------------------------------------------------------------------------
(* ta.julianDay *)

\* A Julian Day: half/2 + sec/86400 days.
JD(half, sec) == [half |-> half, sec |-> sec]

\* a - b in seconds.
JdMinusSec(a, b) == (a.half - b.half) * (SecPerDay \div 2) + (a.sec - b.sec)

\* The check without its test of the year.
julianDayValidAnyYear(year, month, day) ==
    ~(month < 1 \/ month > 12 \/ day < 1 \/ day > 31)

\* if (year < -4712 || month < 1 || month > 12 || day < 1 || day > 31) throw
julianDayValid(year, month, day) ==
    ~(year < 0 - 4712 \/ month < 1 \/ month > 12 \/ day < 1 \/ day > 31)

\* Math.floor(365.25 * x)
Floor365_25(x) == (36525 * x) \div 100

\* Math.floor(30.6001 * x)
Floor30_6001(x) == (306001 * x) \div 10000

\* The month shift without its `year -= 1`.
ShiftedYearKept(year, month) == year

\* if (month <= 2) { year -= 1; month += 12 }
ShiftedYear(year, month) == IF month <= 2 THEN year - 1 ELSE year

ShiftedMonth(month) == IF month <= 2 THEN month + 12 ELSE month

\* The arithmetic of julianDay, for arguments that pass its check.
julianDay(year, month, day, hour, minute, second) ==
    Let(ShiftedYear(year, month), LAMBDA y :
    Let(ShiftedMonth(month), LAMBDA m :
    Let(y \div 100, LAMBDA a :
    Let(2 - a + a \div 4, LAMBDA b :
        \* floor(365.25 (y + 4716)) + floor(30.6001 (m + 1)) + day
        \*   + dayFraction + b - 1524.5
        JD(2 * (Floor365_25(y + 4716) + Floor30_6001(m + 1) + day + b) - 3049,
           hour * 3600 + minute * 60 + second)))))

-----------------------------------------------------------------------------
(* ta.moonPhase *)

\* newMoonJD = 2451549.5
newMoonJD == JD(4903099, 0)

\* synodicMonth = 29.53058868 days = 2551442.861952 s, in whole seconds and
\* microseconds.
SynodicMonthSec == 2551442

SynodicMonthMicro == 861952

\* The sidereal month, 27.321661 days, in the synodic month's place.
siderealMonth == 2360591 * TicksPerSecond + TicksPerSecond \div 2

\* The synodic month in ticks, rounded to the nearest tick.
synodicMonth ==
    SynodicMonthSec * TicksPerSecond
      + (SynodicMonthMicro * TicksPerSecond + 500000) \div 1000000

\* PhaseOfJd without its last line: the phase is returned as computed.
PhaseOfJdUnwrapped(jd) ==
    Rat(JsRem(JdMinusSec(jd, newMoonJD) * TicksPerSecond, synodicMonth),
        synodicMonth)

\* phase = ((jd - newMoonJD) % synodicMonth) / synodicMonth
\* return phase < 0 ? phase + 1 : phase
PhaseOfJd(jd) ==
    Let(JsRem(JdMinusSec(jd, newMoonJD) * TicksPerSecond, synodicMonth),
        LAMBDA r :
        IF r < 0 THEN Rat(r + synodicMonth, synodicMonth)
        ELSE Rat(r, synodicMonth))

\* const jd = this.julianDay(year, month, day, hour, minute, second)
JdOfDate(z, date) ==
    Let(Fields(z, date), LAMBDA f :
        julianDay(f.year, f.month, f.day, f.hour, f.minute, f.second))

\* moonPhase of a valid date.
moonPhase(z, date) == Let(JdOfDate(z, date), LAMBDA jd : PhaseOfJd(jd))

-----------------------------------------------------------------------------
(* ta.phaseName *)

phaseNameValid(phase) == ~(RatLt(phase, Rat(0, 1)) \/ RatGt(phase, Rat(1, 1)))

\* phaseName with <= in the place of < in every comparison.
phaseNameUpperInclusive(phase) ==
    IF RatLe(phase, Rat(1, 16)) THEN "New Moon"
    ELSE IF RatLe(phase, Rat(3, 16)) THEN "Waxing Crescent"
    ELSE IF RatLe(phase, Rat(5, 16)) THEN "First Quarter"
    ELSE IF RatLe(phase, Rat(7, 16)) THEN "Waxing Gibbous"
    ELSE IF RatLe(phase, Rat(9, 16)) THEN "Full Moon"
    ELSE IF RatLe(phase, Rat(11, 16)) THEN "Waning Gibbous"
    ELSE IF RatLe(phase, Rat(13, 16)) THEN "Last Quarter"
    ELSE IF RatLe(phase, Rat(15, 16)) THEN "Waning Crescent"
    ELSE "New Moon"

phaseName(phase) ==
    IF RatLt(phase, Rat(1, 16)) THEN "New Moon"
    ELSE IF RatLt(phase, Rat(3, 16)) THEN "Waxing Crescent"
    ELSE IF RatLt(phase, Rat(5, 16)) THEN "First Quarter"
    ELSE IF RatLt(phase, Rat(7, 16)) THEN "Waxing Gibbous"
    ELSE IF RatLt(phase, Rat(9, 16)) THEN "Full Moon"
    ELSE IF RatLt(phase, Rat(11, 16)) THEN "Waning Gibbous"
    ELSE IF RatLt(phase, Rat(13, 16)) THEN "Last Quarter"
    ELSE IF RatLt(phase, Rat(15, 16)) THEN "Waning Crescent"
    ELSE "New Moon"

-----------------------------------------------------------------------------
(* ta.illumination *)

\* The check without its test of the upper end.
illuminationValidFromZero(phase) == ~RatLt(phase, Rat(0, 1))

\* if (phase < 0 || phase > 1) throw
illuminationValid(phase) ==
    ~(RatLt(phase, Rat(0, 1)) \/ RatGt(phase, Rat(1, 1)))

\* Fixed point of the cosine: CosScale units are 1.
CosScale == 100 * 100

\* pi in units of 1 / CosScale.
PiScaled == 31416

\* |Math.cos(x)| for x = PiScaled * h / d in [0, pi/2], by the Taylor
\* polynomial of degree 8 in fixed point (error below 1 / 1000).
AbsCosQuarter(x) ==
    Let((x * x) \div CosScale, LAMBDA x2 :
    Let((x2 * x2) \div CosScale, LAMBDA x4 :
    Let((x4 * x2) \div CosScale, LAMBDA x6 :
    Let((x6 * (x2 \div 10)) \div (CosScale \div 10), LAMBDA x8 :
        Abs(CosScale - x2 \div 2 + x4 \div 24 - x6 \div 720
              + x8 \div 40320)))))

\* Math.abs(Math.cos(phase * 2 * Math.PI)) * 100 for an accepted phase, in
\* percent.  |cos| has period pi and is symmetric about pi / 2, so the angle
\* is brought into [0, pi/2] first; NaN gives NaN.  The phase has a small
\* denominator.
illumination(phase) ==
    IF phase = NaNNumber THEN NaNNumber
    ELSE Let((2 * phase.n) % phase.d, LAMBDA h :
         Let(IF 2 * h > phase.d THEN phase.d - h ELSE h, LAMBDA k :
             Rat(AbsCosQuarter((PiScaled * k) \div phase.d) * 100,
                 CosScale)))

-----------------------------------------------------------------------------
(* ta.findNextPhase, ta.refinePhaseDate, ta.nextNewMoon, ta.nextFullMoon *)

\* let diff = Math.abs(phase - targetPhase); if (diff > 0.5) diff = 1 - diff
WrappedDiff(phase, targetPhase) ==
    Let(RatAbsDiff(phase, targetPhase), LAMBDA diff :
        IF RatGt(diff, Rat(1, 2)) THEN RatOneMinus(diff) ELSE diff)

\* synodicMonth = 29.53 (of findNextPhase), in hundredths of a day.
searchSynodicMonth == 2953

\* maxDays = synodicMonth + 1, in hundredths of a day.
maxDays == searchSynodicMonth + 100

\* The coarse loop's step: hours += 2.
coarseStep == 2

\* The loop condition with the days not turned into hours.
CoarseContinuesDays(hours) == hours * 100 < maxDays

\* The coarse loop's condition: hours < maxDays * 24.
CoarseContinues(hours) == hours * 100 < maxDays * 24

\* The loop without its early return.
CoarseEarlyHitNever(bestDiff) == FALSE

\* The early return taken at the looser threshold of the loop's end.
CoarseEarlyHitLoose(bestDiff) == RatLt(bestDiff, Rat(1, 10))

\* if (bestDiff < 0.02) return this.refinePhaseDate(bestDate, targetPhase)
CoarseEarlyHit(bestDiff) == RatLt(bestDiff, Rat(1, 50))

\* if (bestDiff < 0.1) return this.refinePhaseDate(bestDate, targetPhase)
CoarseLooseHit(bestDiff) == RatLt(bestDiff, Rat(1, 10))

\* The refinement window and step, in minutes.
refineHalfWindow == 720

refineStep == 30

\* if (diff < bestDiff) { bestDiff = diff; bestDate = ... }
Improves(diff, bestDiff) == RatLt(diff, bestDiff)

\* One pass of the for loop of refinePhaseDate, at the loop variable
\* `minutes`, from the loop state s = [running, bestDate, bestDiff, samples].
\* running is FALSE once the loop condition minutes <= 720 has failed.
RefineBody(z, approximateDate, targetPhase, minutes, s) ==
    IF ~(minutes <= refineHalfWindow) THEN [s EXCEPT !.running = FALSE]
    ELSE Let(approximateDate + minutes * 60 * TicksPerSecond, LAMBDA testDate :
         Let(moonPhase(z, testDate), LAMBDA phase :
         Let(WrappedDiff(phase, targetPhase), LAMBDA diff :
             IF Improves(diff, s.bestDiff)
             THEN [running |-> TRUE, bestDate |-> testDate, bestDiff |-> diff,
                   samples |-> s.samples + 1]
             ELSE [s EXCEPT !.samples = s.samples + 1])))

\* The passes number lo .. hi of that loop, in order (pass i has
\* minutes = -720 + 30 * i).  The range is halved to keep the evaluation
\* shallow; the passes and their order are those of the loop.
RECURSIVE RefinePasses(_, _, _, _, _, _)
RefinePasses(z, approximateDate, targetPhase, lo, hi, s) ==
    IF ~s.running \/ lo > hi THEN s
    ELSE IF lo = hi
    THEN RefineBody(z, approximateDate, targetPhase,
                    0 - refineHalfWindow + refineStep * lo, s)
    ELSE Let(RefinePasses(z, approximateDate, targetPhase,
                          lo, (lo + hi) \div 2, s),
             LAMBDA m : RefinePasses(z, approximateDate, targetPhase,
                                     (lo + hi) \div 2 + 1, hi, m))

\* The loop state of refinePhaseDate when its loop has ended.
RefineRun(z, approximateDate, targetPhase) ==
    Let(moonPhase(z, approximateDate), LAMBDA phase :
    Let([running |-> TRUE, bestDate |-> approximateDate,
         bestDiff |-> WrappedDiff(phase, targetPhase), samples |-> 0],
        LAMBDA s0 :
        RefinePasses(z, approximateDate, targetPhase, 0,
                     (2 * refineHalfWindow) \div refineStep + 1, s0)))

refinePhaseDate(z, approximateDate, targetPhase) ==
    RefineRun(z, approximateDate, targetPhase).bestDate

\* One pass of the for loop of findNextPhase, at the loop variable `hours`,
\* from the loop state s = [at, bestDate, bestDiff, samples]: at is "loop"
\* while the loop runs, "hit" once it has returned from inside the loop, and
\* "end" once the loop condition has failed.
CoarseBody(z, date, targetPhase, hours, s) ==
    IF ~CoarseContinues(hours) THEN [s EXCEPT !.at = "end"]
    ELSE Let(date + hours * TicksPerHour, LAMBDA currentDate :
         Let(moonPhase(z, currentDate), LAMBDA phase :
         Let(WrappedDiff(phase, targetPhase), LAMBDA diff :
         Let(IF Improves(diff, s.bestDiff)
             THEN [bestDate |-> currentDate, bestDiff |-> diff]
             ELSE [bestDate |-> s.bestDate, bestDiff |-> s.bestDiff],
             LAMBDA best :
             [at |-> IF CoarseEarlyHit(best.bestDiff) THEN "hit" ELSE "loop",
              bestDate |-> best.bestDate, bestDiff |-> best.bestDiff,
              samples |-> s.samples + 1]))))

\* The passes number lo .. hi of that loop, in order (pass i has
\* hours = 2 * i), halved like RefinePasses.
RECURSIVE CoarsePasses(_, _, _, _, _, _)
CoarsePasses(z, date, targetPhase, lo, hi, s) ==
    IF s.at # "loop" \/ lo > hi THEN s
    ELSE IF lo = hi
    THEN CoarseBody(z, date, targetPhase, coarseStep * lo, s)
    ELSE Let(CoarsePasses(z, date, targetPhase, lo, (lo + hi) \div 2, s),
             LAMBDA m : CoarsePasses(z, date, targetPhase,
                                     (lo + hi) \div 2 + 1, hi, m))

\* The loop state of findNextPhase when its loop has ended.
CoarseRun(z, date, targetPhase) ==
    Let([at |-> "loop", bestDate |-> date, bestDiff |-> Rat(1, 1),
         samples |-> 0],
        LAMBDA s0 :
        CoarsePasses(z, date, targetPhase, 0,
                     (maxDays * 24) \div (100 * coarseStep) + 1, s0))

\* coarse is the bestDate handed to refinePhaseDate; samples and refined
\* count the phases computed by the two loops.
findNextPhase(z, fromDate, targetPhase) ==
    Let(SetHoursPlus(z, fromDate, 1), LAMBDA date :
    Let(CoarseRun(z, date, targetPhase), LAMBDA s :
        IF s.at = "hit" \/ CoarseLooseHit(s.bestDiff)
        THEN Let(RefineRun(z, s.bestDate, targetPhase), LAMBDA r :
                 [status |-> "ok", date |-> r.bestDate, coarse |-> s.bestDate,
                  samples |-> s.samples, refined |-> r.samples])
        ELSE [status |-> "PhaseNotFound", samples |-> s.samples]))

nextNewMoon(z, fromDate) ==
    IF ~validateDate(fromDate)
    THEN [status |-> "InvalidInput", param |-> "fromDate"]
    ELSE findNextPhase(z, fromDate, Rat(0, 1))

nextFullMoon(z, fromDate) ==
    IF ~validateDate(fromDate)
    THEN [status |-> "InvalidInput", param |-> "fromDate"]
    ELSE findNextPhase(z, fromDate, Rat(1, 2))

-----------------------------------------------------------------------------
(* ta.daysBetween *)

\* msPerDay = 24 * 60 * 60 * 1000 ms, in ticks.
msPerDay == TicksPerDay

\* Math.floor(n / d) in the place of Math.round.
MathFloor(n, d) == n \div d

\* Math.round(n / d) for d > 0: the nearest integer, a tie going up.
MathRound(n, d) == (2 * n + d) \div (2 * d)

\* new Date(date.getFullYear(), date.getMonth(), date.getDate()).getTime()
LocalMidnight(z, date) ==
    Let(Fields(z, date), LAMBDA f : DateOfLocalDay(z, f.year, f.month, f.day))

\* daysBetween with its two checks in the other order.
daysBetweenToDateFirst(z, fromDate, toDate) ==
    IF ~validateDate(toDate)
    THEN [status |-> "InvalidInput", param |-> "toDate"]
    ELSE IF ~validateDate(fromDate)
    THEN [status |-> "InvalidInput", param |-> "fromDate"]
    ELSE [status |-> "ok",
          days |-> MathRound(LocalMidnight(z, toDate)
                               - LocalMidnight(z, fromDate), msPerDay)]

daysBetween(z, fromDate, toDate) ==
    IF ~validateDate(fromDate)
    THEN [status |-> "InvalidInput", param |-> "fromDate"]
    ELSE IF ~validateDate(toDate)
    THEN [status |-> "InvalidInput", param |-> "toDate"]
    ELSE Let(LocalMidnight(z, fromDate), LAMBDA fromTime :
         Let(LocalMidnight(z, toDate), LAMBDA toTime :
             [status |-> "ok",
              days |-> MathRound(toTime - fromTime, msPerDay)]))

-----------------------------------------------------------------------------
(* ta.formatRelativeTime *)

\* typeof v === 'number': a number is a ratio, NaN and the infinities being
\* 0/0, 1/0 and -1/0; any other value is a record of another shape.
IsNumber(v) == DOMAIN v = {"n", "d"}

\* isNaN(x) for a number x.
IsNaN(x) == x.d = 0 /\ x.n = 0

Infinity == Rat(1, 0)

MinusInfinity == Rat(0 - 1, 0)

\* The decimal digit k as a string.
Digit(k) == <<"0", "1", "2", "3", "4", "5", "6", "7", "8", "9">>[k + 1]

\* The decimal digits of an integer n >= 0.
RECURSIVE DigitsOf(_)
DigitsOf(n) ==
    IF n < 10 THEN Digit(n) ELSE DigitsOf(n \div 10) \o Digit(n % 10)

\* Number-to-string conversion of a template literal, for the numbers of the
\* model: whole numbers, odd halves, NaN and the infinities.
NumberToString(x) ==
    IF x.d = 0
    THEN (IF x.n = 0 THEN "NaN" ELSE IF x.n > 0 THEN "Infinity"
          ELSE "-Infinity")
    ELSE Let(IF x.d = 1 THEN DigitsOf(Abs(x.n))
             ELSE DigitsOf(Abs(x.n) \div 2) \o ".5",
             LAMBDA digits : IF x.n < 0 THEN "-" \o digits ELSE digits)

\* The number returned as it is, in the place of Math.abs.
AbsNumberKept(x) == x

\* Math.abs(x)
AbsNumber(x) == Rat(Abs(x.n), x.d)

\* x === k for a number x and a whole number k.
StrictEquals(x, k) == x.d # 0 /\ x.n = k * x.d

formatRelativeTime(days) ==
    IF ~IsNumber(days) \/ IsNaN(days) THEN [status |-> "InvalidInput"]
    ELSE IF StrictEquals(days, 0) THEN [status |-> "ok", text |-> "Today"]
    ELSE IF StrictEquals(days, 1) THEN [status |-> "ok", text |-> "Tomorrow"]
    ELSE IF StrictEquals(days, 0 - 1)
    THEN [status |-> "ok", text |-> "Yesterday"]
    ELSE IF RatGt(days, Rat(0, 1))
    THEN [status |-> "ok", text |-> "In " \o NumberToString(days) \o " days"]
    ELSE [status |-> "ok",
          text |-> NumberToString(AbsNumber(days)) \o " days ago"]

-----------------------------------------------------------------------------
(* ta.findPhaseEvents *)

\* Math.abs(phase - target) < 0.05
Near(phase, target) == RatLt(RatAbsDiff(phase, target), Rat(1, 20))

\* Math.abs(phase - target) > 0.05
Far(phase, target) == RatGt(RatAbsDiff(phase, target), Rat(1, 20))

\* The chain without its last branch, the quarter at 0.75.
PhaseTypeFirstQuarterOnly(phase, prevPhase, nextPhase) ==
    IF RatLt(phase, Rat(1, 20))
       /\ (RatGt(prevPhase, Rat(19, 20)) \/ RatGt(nextPhase, Rat(1, 20)))
    THEN "new-moon"
    ELSE IF Near(phase, Rat(1, 2))
            /\ (Far(prevPhase, Rat(1, 2)) \/ Far(nextPhase, Rat(1, 2)))
    THEN "full-moon"
    ELSE IF Near(phase, Rat(1, 4))
            /\ (Far(prevPhase, Rat(1, 4)) \/ Far(nextPhase, Rat(1, 4)))
    THEN "quarter"
    ELSE ""

\* The if / else-if chain that sets phaseType ("" when no branch is taken).
PhaseType(phase, prevPhase, nextPhase) ==
    IF RatLt(phase, Rat(1, 20))
       /\ (RatGt(prevPhase, Rat(19, 20)) \/ RatGt(nextPhase, Rat(1, 20)))
    THEN "new-moon"
    ELSE IF Near(phase, Rat(1, 2))
            /\ (Far(prevPhase, Rat(1, 2)) \/ Far(nextPhase, Rat(1, 2)))
    THEN "full-moon"
    ELSE IF Near(phase, Rat(1, 4))
            /\ (Far(prevPhase, Rat(1, 4)) \/ Far(nextPhase, Rat(1, 4)))
    THEN "quarter"
    ELSE IF Near(phase, Rat(3, 4))
            /\ (Far(prevPhase, Rat(3, 4)) \/ Far(nextPhase, Rat(3, 4)))
    THEN "quarter"
    ELSE ""

\* The test without its comparison to the range.
EventKeptAnywhere(phaseType, searchDate, startDate, endDate) == phaseType # ""

\* if (phaseType && searchDate >= startDate && searchDate <= endDate)
EventKept(phaseType, searchDate, startDate, endDate) ==
    phaseType # "" /\ searchDate >= startDate /\ searchDate <= endDate

\* One pass of the while loop, from the loop state
\* s = [running, searchDate, events]; running is FALSE once the loop
\* condition searchDate.getTime() <= endTime has failed.
EventsBody(z, startDate, endDate, s) ==
    IF ~(s.searchDate <= endDate + 2 * msPerDay)
    THEN [s EXCEPT !.running = FALSE]
    ELSE Let(moonPhase(z, s.searchDate), LAMBDA phase :
         Let(moonPhase(z, SetDatePlus(z, s.searchDate, 0 - 1)),
             LAMBDA prevPhase :
         Let(moonPhase(z, SetDatePlus(z, s.searchDate, 1)),
             LAMBDA nextPhase :
         Let(PhaseType(phase, prevPhase, nextPhase), LAMBDA phaseType :
             [running |-> TRUE,
              searchDate |-> SetDatePlus(z, s.searchDate, 1),
              events |->
                IF EventKept(phaseType, s.searchDate, startDate, endDate)
                THEN Append(s.events, [date |-> s.searchDate,
                                       type |-> phaseType,
                                       phase |-> phase])
                ELSE s.events]))))

\* n passes of that loop, in order, halved like RefinePasses.
RECURSIVE EventsPasses(_, _, _, _, _)
EventsPasses(z, startDate, endDate, n, s) ==
    IF ~s.running \/ n <= 0 THEN s
    ELSE IF n = 1 THEN EventsBody(z, startDate, endDate, s)
    ELSE Let(EventsPasses(z, startDate, endDate, n \div 2, s),
             LAMBDA m : EventsPasses(z, startDate, endDate, n - n \div 2, m))

\* More passes than the loop can make: a local day is at least 23 hours.
EventsPassLimit(startDate, endDate) ==
    IF endDate < startDate THEN 8
    ELSE (endDate - startDate) \div (23 * TicksPerHour) + 8

findPhaseEvents(z, startDate, endDate) ==
    IF ~validateDate(startDate)
    THEN [status |-> "InvalidInput", param |-> "startDate"]
    ELSE IF ~validateDate(endDate)
    THEN [status |-> "InvalidInput", param |-> "endDate"]
    ELSE Let([running |-> TRUE,
              searchDate |-> SetDatePlus(z, startDate, 0 - 2),
              events |-> <<>>],
             LAMBDA s0 :
         Let(EventsPasses(z, startDate, endDate,
                          EventsPassLimit(startDate, endDate), s0),
             LAMBDA s :
             [status |-> IF s.running THEN "running" ELSE "ok",
              events |-> s.events]))

-----------------------------------------------------------------------------
(* Date objects: what the operations of ta copy, change and return *)

\* A heap h is the sequence of the Date objects in creation order: the
\* object i has the time value h[i].  The operators below follow the
\* objects of a call: the copies it makes, the setters it calls on them and
\* the objects it returns; the values come from the operators above.

\* The references of a call: its Date arguments and the Dates it returned.
NoRefs == [args |-> <<>>, ret |-> <<>>]

\* The object itself in the place of a copy.
CopyOfSame(h, i) == [h |-> h, ref |-> i]

\* new Date(date) for the object i: a new object with the same time value.
CopyOf(h, i) == [h |-> Append(h, h[i]), ref |-> Len(h) + 1]

\* new Date(time), new Date(year, monthIndex, day): a new object.
DateOf(h, time) == [h |-> Append(h, time), ref |-> Len(h) + 1]

\* A setter of the object i: setDate, setHours.
Store(h, i, time) == [h EXCEPT ![i] = time]

\* moonPhase(date) reads the fields of date.
moonPhaseObjects(h, date) == [h |-> h, ret |-> <<>>]

\* daysBetween(fromDate, toDate): the two dates new Date(year, month, day).
daysBetweenObjects(z, h, fromDate, toDate) ==
    IF ~validateDate(h[fromDate]) \/ ~validateDate(h[toDate])
    THEN [h |-> h, ret |-> <<>>]
    ELSE Let(DateOf(h, LocalMidnight(z, h[fromDate])), LAMBDA from :
         Let(DateOf(from.h, LocalMidnight(z, from.h[toDate])), LAMBDA to :
             [h |-> to.h, ret |-> <<>>]))

\* refinePhaseDate(approximateDate, targetPhase) when it returns the time
\* value refined: bestDate = new Date(approximateDate), and when a sample
\* improved, testDate = new Date(time) and bestDate = new Date(testDate).
refinePhaseDateObjects(h, approximateDate, refined) ==
    Let(CopyOf(h, approximateDate), LAMBDA bestDate :
        IF refined = h[approximateDate]
        THEN [h |-> bestDate.h, ret |-> <<bestDate.ref>>]
        ELSE Let(DateOf(bestDate.h, refined), LAMBDA testDate :
             Let(CopyOf(testDate.h, testDate.ref), LAMBDA better :
                 [h |-> better.h, ret |-> <<better.ref>>])))

\* findNextPhase(fromDate, targetPhase, phaseName) when the search on the
\* values has the result found: date = new Date(fromDate) and
\* date.setHours(...), bestDate = new Date(date), then for the best sample
\* currentDate = new Date(time) and bestDate = new Date(currentDate), which
\* refinePhaseDate receives.
findNextPhaseObjects(z, h, fromDate, found) ==
    Let(CopyOf(h, fromDate), LAMBDA date :
    Let(Store(date.h, date.ref, SetHoursPlus(z, date.h[date.ref], 1)),
        LAMBDA moved :
    Let(CopyOf(moved, date.ref), LAMBDA first :
        IF found.status # "ok" THEN [h |-> first.h, ret |-> <<>>]
        ELSE Let(DateOf(first.h, found.coarse), LAMBDA currentDate :
             Let(CopyOf(currentDate.h, currentDate.ref), LAMBDA bestDate :
                 refinePhaseDateObjects(bestDate.h, bestDate.ref,
                                        found.date))))))

\* nextNewMoon(fromDate), nextFullMoon(fromDate)
nextMoonObjects(z, h, fromDate, found) ==
    IF ~validateDate(h[fromDate]) THEN [h |-> h, ret |-> <<>>]
    ELSE findNextPhaseObjects(z, h, fromDate, found)

\* The passes of the loop of findPhaseEvents that push an event, for the
\* events from the i-th on: searchDate has been stepped to the event's day,
\* prevDate and nextDate are copies of it stepped by a day, and the event
\* holds new Date(searchDate).
RECURSIVE EventObjects(_, _, _, _, _)
EventObjects(z, s, searchDate, events, i) ==
    IF i > Len(events) THEN s
    ELSE Let(Store(s.h, searchDate, events[i].date), LAMBDA stepped :
         Let(CopyOf(stepped, searchDate), LAMBDA prevDate :
         Let(Store(prevDate.h, prevDate.ref,
                   SetDatePlus(z, prevDate.h[prevDate.ref], 0 - 1)),
             LAMBDA h1 :
         Let(CopyOf(h1, searchDate), LAMBDA nextDate :
         Let(Store(nextDate.h, nextDate.ref,
                   SetDatePlus(z, nextDate.h[nextDate.ref], 1)),
             LAMBDA h2 :
         Let(CopyOf(h2, searchDate), LAMBDA date :
             EventObjects(z, [h |-> date.h, ret |-> Append(s.ret, date.ref)],
                          searchDate, events, i + 1)))))))

\* findPhaseEvents(startDate, endDate) when the scan of the values has the
\* result found: searchDate = new Date(startDate) and
\* searchDate.setDate(...), then the passes.
findPhaseEventsObjects(z, h, startDate, endDate, found) ==
    IF found.status = "InvalidInput" THEN [h |-> h, ret |-> <<>>]
    ELSE Let(CopyOf(h, startDate), LAMBDA searchDate :
         Let(Store(searchDate.h, searchDate.ref,
                   SetDatePlus(z, searchDate.h[searchDate.ref], 0 - 2)),
             LAMBDA h1 :
             EventObjects(z, [h |-> h1, ret |-> <<>>], searchDate.ref,
                          found.events, 1)))

-----------------------------------------------------------------------------
(* DateTracker (src/src/components/Timeline.ts) *)

\* The clock Date.now() is counted in steps of ClockStepMs milliseconds.
ClockStepMs == 50

ClockPerSecond == 1000 \div ClockStepMs

\* updateThrottle = 100 (milliseconds)
updateThrottle == 100

\* Date.now() at the construction of the tracker: lastUpdateTime starts at
\* 0, and the clock is far more than updateThrottle from 0.
StartClock == updateThrottle \div ClockStepMs

\* No date: the value null of _targetDate, and no notification yet.
NoDate == NaNDate - 2

\* animationId: null, or the id of a frame that has run or was cancelled
\* (every such id behaves alike), or the id of a requested frame.
NullId == 0

StaleId == 0 - 1

\* The fields of a tracker after its constructor.
NewTracker(initialDate) ==
    [currentDate |-> initialDate, animationSpeed |-> Rat(1, 1),
     isAnimating |-> FALSE,
     targetDate |-> NoDate, animationId |-> NullId, lastUpdateTime |-> 0]

\* No animation was started, or the last one was stopped.
NoAnimation ==
    [n |-> 0, target |-> NoDate, startDate |-> NoDate, done |-> FALSE]

\* In e = [t, fs, nt] an animation to target is complete: the current date
\* and the date last handed to onDateChange are the target, isAnimating is
\* false and no frame is requested.
CompletedAt(e, target) ==
    /\ e.t.currentDate = target
    /\ e.nt = target
    /\ ~e.t.isAnimating
    /\ e.fs = {}

\* A long while of the clock, in clock steps: 60 days, more than any
\* animation between two dates of the model takes at speed 1.
LongWait == 60 * SecPerDay * ClockPerSecond

\* requestAnimationFrame: an id that no requested frame has.
FreshId(fs) ==
    CHOOSE i \in 1 .. Cardinality(fs) + 1 : \A f \in fs : f.id # i

\* cancelAnimationFrame(id)
CancelFrame(fs, id) == {f \in fs : f.id # id}

\* Math.min(x, 1): NaN for NaN.
MathMin1(x) ==
    IF IsNaN(x) THEN NaNNumber
    ELSE IF RatLt(Rat(1, 1), x) THEN Rat(1, 1)
    ELSE x

\* The test progress >= 1 left out of the condition of the notification.
AtLeastOneNever(x) == FALSE

\* x >= 1 for a number x (false for NaN).
AtLeastOne(x) == ~IsNaN(x) /\ ~RatLt(x, Rat(1, 1))

\* (a + b - 1) / b rounded down: a / b rounded up, for a >= 0 and b > 0.
CeilDiv(a, b) == (a + b - 1) \div b

\* The clock steps after which elapsed / (totalDuration / speed) is at least
\* 1, for a span = totalDuration in ticks and a whole speed > 0.
StepsToRun(span, speed) ==
    CeilDiv(ClockPerSecond * span, speed * TicksPerSecond)

\* const progress = Math.min(elapsed / (totalDuration / this.animationSpeed), 1)
\* for the closure c of animateToDate: elapsed is in clock steps and
\* totalDuration in ticks, so for a finite speed the quotient is
\* elapsed * speed * TicksPerSecond / (ClockPerSecond * totalDuration).
\* It is NaN when the start date is invalid or the speed is NaN, and 0/0 =
\* NaN when elapsed is 0 and totalDuration / speed is 0 (a span of 0, or
\* the speed Infinity).  Finite speeds of the model are whole numbers.  The
\* quotient is not computed once it is 1 or more.
Progress(c, speed, clock) ==
    Let(clock - c.startTime, LAMBDA elapsed :
    Let(Abs(c.targetDate - c.startDate), LAMBDA span :
        IF c.startDate = NaNDate \/ IsNaN(speed) THEN NaNNumber
        ELSE IF span = 0 \/ speed.d = 0
        THEN (IF elapsed = 0 THEN NaNNumber ELSE Rat(1, 1))
        ELSE IF elapsed >= StepsToRun(span, speed.n) THEN Rat(1, 1)
        ELSE MathMin1(Rat(elapsed * speed.n * TicksPerSecond,
                          ClockPerSecond * span))))

\* easeInOutCubic(t) = t < 0.5 ? 4 t^3 : 1 - (-2 t + 2)^3 / 2, for t = n / d
\* in [0, 1].  The value is from + cube / d^3 when from = 0 and
\* from - cube / d^3 when from = 1; the cube of d is not computed.
easeInOutCubic(t) ==
    IF RatLt(t, Rat(1, 2))
    THEN [from |-> 0, cube |-> 4 * t.n * t.n * t.n, d |-> t.d]
    ELSE [from |-> 1,
          cube |-> 4 * (t.d - t.n) * (t.d - t.n) * (t.d - t.n), d |-> t.d]

\* this.currentDate = new Date(startDate + (targetDate - startDate) * ease)
\* for a progress that is a number.  With span = |targetDate - startDate|
\* the denominator of the progress is ClockPerSecond * span (or the cube is
\* 0), so span * cube / d^3 = cube / (ClockPerSecond^3 * span^2).  The time
\* value is rounded down to a whole tick (the code rounds it down to a whole
\* millisecond).
currentTime(c, progress) ==
    Let(Abs(c.targetDate - c.startDate), LAMBDA span :
    Let(easeInOutCubic(progress), LAMBDA ease :
    Let(ClockPerSecond * ClockPerSecond * ClockPerSecond, LAMBDA cps3 :
        IF ease.cube = 0
        THEN (IF ease.from = 0 THEN c.startDate ELSE c.targetDate)
        ELSE Let((((ease.cube \div span) \div span) \div cps3), LAMBDA down :
             Let(CeilDiv(CeilDiv(CeilDiv(ease.cube, span), span), cps3),
                 LAMBDA up :
                 IF c.targetDate > c.startDate
                 THEN (IF ease.from = 0 THEN c.startDate + down
                       ELSE c.startDate + span - up)
                 ELSE (IF ease.from = 0 THEN c.startDate - up
                       ELSE c.startDate - span + down))))))

\* One run of the closure `animate` of animateToDate, for the closure
\* c = [startDate, targetDate, startTime], on e = [t, fs, nt]: the tracker's
\* fields, the requested frames and the last notification.  onDateChange
\* returns normally.
animate(c, e, clock) ==
    Let(Progress(c, e.t.animationSpeed, clock), LAMBDA progress :
    Let(IF IsNaN(progress) THEN NaNDate ELSE currentTime(c, progress),
        LAMBDA date :
    Let(clock - e.t.lastUpdateTime >= updateThrottle \div ClockStepMs
          \/ AtLeastOne(progress), LAMBDA notify :
    Let(~IsNaN(progress) /\ RatLt(progress, Rat(1, 1)), LAMBDA again :
        [t |-> [e.t EXCEPT
                  !.currentDate = date,
                  !.lastUpdateTime = IF notify THEN clock ELSE @,
                  !.animationId = IF again THEN FreshId(e.fs) ELSE @,
                  !.isAnimating = IF again THEN @ ELSE FALSE,
                  !.targetDate = IF again THEN @ ELSE NoDate],
         fs |-> IF again
                THEN e.fs \cup {[id |-> FreshId(e.fs),
                                 startDate |-> c.startDate,
                                 targetDate |-> c.targetDate,
                                 startTime |-> c.startTime]}
                ELSE e.fs,
         nt |-> IF notify THEN date ELSE e.nt]))))

\* animateToDate(targetDate)
animateToDate(targetDate, e, clock) ==
    Let(e.t.isAnimating /\ e.t.animationId # NullId, LAMBDA cancel :
        animate([startDate |-> e.t.currentDate, targetDate |-> targetDate,
                 startTime |-> clock],
                [t |-> [e.t EXCEPT
                          !.isAnimating = TRUE,
                          !.targetDate = targetDate,
                          !.animationId = IF cancel THEN StaleId ELSE @],
                 fs |-> IF cancel THEN CancelFrame(e.fs, e.t.animationId)
                        ELSE e.fs,
                 nt |-> e.nt],
                clock))

\* setDate(date, animate): the new [t, fs, nt] and the status of the call.
setDate(date, animated, e, clock) ==
    IF ~validateDate(date)
    THEN [status |-> "InvalidInput", param |-> "date", e |-> e]
    ELSE IF animated
    THEN [status |-> "ok", date |-> date,
          e |-> animateToDate(date, e, clock)]
    ELSE [status |-> "ok", date |-> date,
          e |-> [e EXCEPT !.t.currentDate = date, !.nt = date]]

\* newDate.setDate(newDate.getDate() + days) for the number days: an invalid
\* date for an infinity, and for an invalid date.
DatePlusDays(z, date, days) ==
    IF days.d = 0 \/ date = NaNDate THEN NaNDate
    ELSE SetDatePlus(z, date, days.n)

\* addDays(days, animate)
addDays(z, days, animated, e, clock) ==
    IF ~IsNumber(days) \/ IsNaN(days)
    THEN [status |-> "InvalidInput", param |-> "days", e |-> e]
    ELSE setDate(DatePlusDays(z, e.t.currentDate, days), animated, e, clock)

\* goToNextNewMoon(animate) and goToNextFullMoon(animate), found being the
\* result of ta.nextNewMoon or ta.nextFullMoon for the current date.
goToNext(found, animated, e, clock) ==
    IF found.status # "ok"
    THEN [status |-> found.status, e |-> e]
    ELSE setDate(found.date, animated, e, clock)

\* setAnimationSpeed(speed): the fields after the call; a throw leaves them.
setAnimationSpeed(speed, t) ==
    IF ~IsNaN(speed) /\ ~RatLt(Rat(0, 1), speed) THEN t
    ELSE [t EXCEPT !.animationSpeed = speed]

\* stopAnimation()
stopAnimation(e) ==
    [t |-> [e.t EXCEPT !.animationId = NullId, !.isAnimating = FALSE,
                        !.targetDate = NoDate],
     fs |-> IF e.t.animationId # NullId
            THEN CancelFrame(e.fs, e.t.animationId) ELSE e.fs,
     nt |-> e.nt]

-----------------------------------------------------------------------------
(* Timeline (src/src/components/Timeline.ts) *)

\* Local wall-clock reading of midnight of a calendar day given as in
\* new Date(year, monthIndex, day): m counts the months from 1, months
\* outside 1..12 carry into the year and days outside the month into the
\* neighbouring months.
LocalDay(year, m, day) ==
    (DaysFromCivil(year + (m - 1) \div 12, ((m - 1) % 12) + 1, 1)
       + day - 1 - OriginDay) * TicksPerDay

\* new Date(year, monthIndex, day)
NewDate(z, year, m, day) == UTC(z, LocalDay(year, m, day))

\* date.setMonth(date.getMonth() + n): day of month and time of day are kept.
SetMonthPlus(z, t, n) ==
    Let(Fields(z, t), LAMBDA f :
        UTC(z, LocalDay(f.year, f.month + n, f.day)
                 + (LocalTime(z, t) % TicksPerDay)))

\* new Date(timelineMonth.getFullYear(), timelineMonth.getMonth() + 1, 0)
monthEnd(z, timelineMonth) ==
    Let(Fields(z, timelineMonth), LAMBDA f :
        NewDate(z, f.year, f.month + 1, 0))

daysInMonth(z, timelineMonth) == Fields(z, monthEnd(z, timelineMonth)).day

MonthNames ==
    <<"January", "February", "March", "April", "May", "June", "July",
      "August", "September", "October", "November", "December">>

ShortMonthNames ==
    <<"Jan", "Feb", "Mar", "Apr", "May", "Jun", "Jul", "Aug", "Sep", "Oct",
      "Nov", "Dec">>

\* toLocaleDateString('en-US', { month: 'long', year: 'numeric' })
MonthAndYear(z, t) ==
    Let(Fields(z, t), LAMBDA f :
        MonthNames[f.month] \o " " \o DigitsOf(f.year))

\* toLocaleDateString('en-US', { month: 'short', day: 'numeric' })
MonthAndDay(z, t) ==
    Let(Fields(z, t), LAMBDA f :
        ShortMonthNames[f.month] \o " " \o DigitsOf(f.day))

isSameDay(z, date1, date2) ==
    /\ Fields(z, date1).year = Fields(z, date2).year
    /\ Fields(z, date1).month = Fields(z, date2).month
    /\ Fields(z, date1).day = Fields(z, date2).day

\* The style of the cursor before the component has set it.
CursorUnset == [display |-> "", left |-> NaNNumber]

\* updateCursor(): the cursor's style after the call.
updateCursor(z, tl) ==
    IF /\ Fields(z, tl.currentDate).month = Fields(z, tl.timelineMonth).month
       /\ Fields(z, tl.currentDate).year = Fields(z, tl.timelineMonth).year
    THEN [display |-> "block",
          left |-> Rat((Fields(z, tl.currentDate).day - 1) * 100,
                       daysInMonth(z, tl.timelineMonth) - 1)]
    ELSE [tl.cursor EXCEPT !.display = "none"]

\* The element renderDayMarkers creates for a day.
DayMarker(day, n) ==
    [classList |-> IF day % 7 = 1 \/ day = 1 \/ day = 15 \/ day = n
                   THEN {"day-marker", "major"} ELSE {"day-marker"},
     left |-> Rat((day - 1) * 100, n - 1)]

\* renderDayMarkers(): the track after the call.
renderDayMarkers(z, tl) ==
    Let(daysInMonth(z, tl.timelineMonth), LAMBDA n :
        tl.track \o [day \in 1 .. n |-> DayMarker(day, n)])

\* Math.max(0, Math.min(100, position))
Clamp100(position) ==
    IF RatLt(position, Rat(0, 1)) THEN Rat(0, 1)
    ELSE IF RatGt(position, Rat(100, 1)) THEN Rat(100, 1)
    ELSE position

\* The element renderPhaseMarkers creates for an event.  dataset.date holds
\* the event's instant (toISOString keeps every millisecond of it).
PhaseMarker(z, tl, phaseData, n) ==
    [classList |-> {"phase-marker", phaseData.type}
                     \cup (IF isSameDay(z, phaseData.date, tl.currentDate)
                           THEN {"current"} ELSE {}),
     date |-> phaseData.date,
     title |-> phaseName(phaseData.phase) \o " - "
                 \o MonthAndDay(z, phaseData.date),
     left |-> IF n = 1 THEN Rat(50, 1)
              ELSE Clamp100(Rat((Fields(z, phaseData.date).day - 1) * 100,
                                n - 1))]

\* renderPhaseMarkers(): the track after the call.
renderPhaseMarkers(z, tl) ==
    Let(findPhaseEvents(z, tl.timelineMonth, monthEnd(z, tl.timelineMonth))
          .events,
        LAMBDA phases :
        tl.track \o [i \in 1 .. Len(phases) |->
                       PhaseMarker(z, tl, phases[i],
                                   daysInMonth(z, tl.timelineMonth))])

\* render(), up to its setTimeout: the month is displayed and the track is
\* emptied.
render(z, tl) ==
    [tl EXCEPT !.monthDisplay = MonthAndYear(z, tl.timelineMonth),
               !.track = <<>>]

\* The callback render() hands to setTimeout.
renderLater(z, tl) ==
    Let([tl EXCEPT !.track = renderDayMarkers(z, tl)], LAMBDA days :
    Let([days EXCEPT !.track = renderPhaseMarkers(z, days)], LAMBDA phases :
        [phases EXCEPT !.cursor = updateCursor(z, phases)]))

\* The fields and elements of a Timeline constructed when new Date() is
\* today, after the constructor's render().
NewTimeline(z, today) ==
    render(z, [currentDate |-> today,
               timelineMonth |->
                 NewDate(z, Fields(z, today).year, Fields(z, today).month, 1),
               monthDisplay |-> "",
               track |-> <<>>,
               cursor |-> CursorUnset])

\* updateCurrentDate(date)
updateCurrentDate(z, tl, date) ==
    IF ~validateDate(date) THEN tl
    ELSE Let([tl EXCEPT !.currentDate = date], LAMBDA moved :
             [moved EXCEPT !.cursor = updateCursor(z, moved)])

-----------------------------------------------------------------------------
(* Inputs *)

\* The grid of instants: k * SampleStride for k in -MaxSample .. MaxSample.
\* The stride (7 h 13 min 7.3 s) is not a multiple of the loops' steps, and
\* the grid spans more than one synodic month around the origin.
SampleStride == (7 * 3600 + 13 * 60 + 7) * TicksPerSecond + 3

Samples == {k * SampleStride : k \in (0 - MaxSample) .. MaxSample}

\* Instants around a change of the zone's offset: half-hours and 25-hour
\* steps on both sides.
Around(c) ==
    {c + j * (TicksPerHour \div 2) : j \in (0 - DstSpan) .. DstSpan}
      \cup {c + j * 25 * TicksPerHour : j \in (0 - DstSpan) .. DstSpan}

DstEdges == Around(DstStart("America/New_York"))
              \cup Around(DstEnd("America/New_York"))

\* The reference new moon and its neighbourhood.
NearOrigin == {0 - TicksPerSecond, 0 - 1, 0, 1, TicksPerSecond,
               5 * TicksPerHour, 11 * TicksPerHour}

Instants == Samples \cup DstEdges \cup NearOrigin

\* Malformed date arguments.
BadDates == {NaNDate, NotADate}

\* Arguments of daysBetween.
PairInstants ==
    {k * SampleStride : k \in (0 - PairSpan) .. PairSpan} \cup DstEdges

\* Arguments of findPhaseEvents: start and end - start.
RangeStarts ==
    {k * 5 * SampleStride : k \in (0 - RangeSpan) .. RangeSpan}
      \cup {DstStart("America/New_York") - 30 * TicksPerHour,
            DstEnd("America/New_York") - 3 * TicksPerDay + TicksPerHour}

RangeLengths ==
    {0 - 2 * TicksPerDay, 0 - 1, 0, TicksPerHour, TicksPerDay,
     9 * TicksPerDay + 5 * TicksPerHour, 31 * TicksPerDay}

\* The end of the range that starts at a: a + len, or a malformed date.
RangeEnd(a, len) ==
    IF len \in BadDates THEN len
    ELSE IF a \in BadDates THEN 0
    ELSE a + len

\* Arguments of julianDay.
Years == {0 - 4713, 0 - 4712, 0 - 4711, 0 - 1, 0, 1, 1582, 1899, 1900,
          1999, 2000, 2001, 2100}

Months == 0 .. 13

Days == {0, 1, 28, 29, 30, 31, 32}

TimesOfDay == {<<0, 0, 0>>, <<12, 0, 0>>, <<23, 59, 59>>}

\* Arguments of phaseName: k / PhaseDen, from below 0 to above 1.
PhaseDen == 16 * 10

Phases == {Rat(k, PhaseDen) : k \in (0 - PhaseOver) .. (PhaseDen + PhaseOver)}

\* Arguments of phaseName and illumination: the grid, 1.5 and NaN.
PhaseArguments == Phases \cup {Rat(3, 2), NaNNumber}

\* Arguments of formatRelativeTime: whole numbers, halves, NaN, the
\* infinities, and a value that is not a number.
DayCounts ==
    {Rat(n, 1) : n \in ((0 - DaysSpan) .. DaysSpan) \cup {0 - 100, 100, 365}}
      \cup {Rat(1, 2), Rat(0 - 3, 2), NaNNumber, Infinity, MinusInfinity,
            [text |-> "5"]}

\* Arguments of the DateTracker: its first date (the reference new moon),
\* dates for setDate (the first date, one a few ticks from it, one days
\* away, and an invalid one), day counts and speeds.
TrackerFirstDate == 0

TrackerDates ==
    {TrackerFirstDate, TrackerFirstDate + NearSpan, 5 * SampleStride,
     NaNDate}

TrackerDayCounts ==
    {Rat(0 - 1, 1), Rat(0, 1), NaNNumber, Infinity}

Speeds == {Rat(0, 1), Rat(2, 1), NaNNumber, Infinity}

\* The day on which the Timeline is constructed (2000-03-10 12:00 UTC), and
\* the dates given to updateCurrentDate: that day, a day of the following
\* month, and an invalid date.
TimelineToday == 64 * TicksPerDay + TicksPerDay \div 2

TimelineDates == {TimelineToday, TimelineToday + 30 * TicksPerDay, NaNDate}

-----------------------------------------------------------------------------
(* The caller: one action per operation of the library *)

\* A tracker as constructed with new DateTracker(initialDate, onDateChange).
TrackerConstructed(initialDate) ==
    /\ tracker = NewTracker(initialDate)
    /\ frames = {}
    /\ notified = NoDate
    /\ now = StartClock
    /\ calls = 0
    /\ settled = NoDate
    /\ started = NoAnimation

\* A timeline as constructed with new Timeline(onDateSelect): the
\* constructor's render() has set the first timer.
TimelineConstructed(today) ==
    /\ timeline = NewTimeline(tz, today)
    /\ timers = 1
    /\ selected = NoDate
    /\ clicks = 0

Init ==
    /\ tz \in Zones
    /\ pc = "idle"
    /\ op = "none"
    /\ args = <<>>
    /\ ret = [status |-> "none"]
    /\ heap = <<>>
    /\ refs = NoRefs
    /\ TrackerConstructed(TrackerFirstDate)
    /\ TimelineConstructed(TimelineToday)

\* The objects after a call: o = [h, ret] is the heap and the returned
\* Dates, argRefs the Date arguments.
Called(o, argRefs) ==
    /\ heap' = o.h
    /\ refs' = [args |-> argRefs, ret |-> o.ret]

\* Two Date arguments with the time values a and b as the caller holds
\* them: two objects, or one object given twice.
Given(a, b) ==
    {[h |-> <<a, b>>, refs |-> <<1, 2>>]}
      \cup (IF a = b THEN {[h |-> <<a>>, refs |-> <<1, 1>>]} ELSE {})

\* ta.moonPhase(date).  jd is the Julian Day the call computes on the way.
MoonPhase ==
    /\ pc = "idle"
    /\ \E d \in Instants \cup BadDates :
         /\ op' = "moonPhase"
         /\ args' = <<d>>
         /\ ret' = IF validateDate(d)
                   THEN [status |-> "ok", phase |-> moonPhase(tz, d),
                         jd |-> JdOfDate(tz, d)]
                   ELSE [status |-> "InvalidInput", param |-> "date"]
         /\ Called(moonPhaseObjects(<<d>>, 1), <<1>>)
    /\ pc' = "returned"
    /\ UNCHANGED <<tz, trackerVars, timelineVars>>

\* ta.julianDay(year, month, day, hour, minute, second)
JulianDay ==
    /\ pc = "idle"
    /\ \E y \in Years, m \in Months, d \in Days, t \in TimesOfDay :
         /\ op' = "julianDay"
         /\ args' = <<y, m, d, t[1], t[2], t[3]>>
         /\ ret' = IF julianDayValid(y, m, d)
                   THEN [status |-> "ok",
                         jd |-> julianDay(y, m, d, t[1], t[2], t[3])]
                   ELSE [status |-> "InvalidInput"]
    /\ pc' = "returned"
    /\ UNCHANGED <<tz, heap, refs, trackerVars, timelineVars>>

\* ta.phaseName(phase)
PhaseName ==
    /\ pc = "idle"
    /\ \E p \in PhaseArguments :
         /\ op' = "phaseName"
         /\ args' = <<p>>
         /\ ret' = IF phaseNameValid(p)
                   THEN [status |-> "ok", name |-> phaseName(p)]
                   ELSE [status |-> "InvalidInput"]
    /\ pc' = "returned"
    /\ UNCHANGED <<tz, heap, refs, trackerVars, timelineVars>>

\* ta.illumination(phase)
Illumination ==
    /\ pc = "idle"
    /\ \E p \in PhaseArguments :
         /\ op' = "illumination"
         /\ args' = <<p>>
         /\ ret' = IF illuminationValid(p)
                   THEN [status |-> "ok", percent |-> illumination(p)]
                   ELSE [status |-> "InvalidInput"]
    /\ pc' = "returned"
    /\ UNCHANGED <<tz, heap, refs, trackerVars, timelineVars>>

\* ta.nextNewMoon(fromDate)
NextNewMoon ==
    /\ pc = "idle"
    /\ \E d \in Instants \cup BadDates :
         /\ op' = "nextNewMoon"
         /\ args' = <<d>>
         /\ \E found \in {nextNewMoon(tz, d)} :
              /\ ret' = found
              /\ Called(nextMoonObjects(tz, <<d>>, 1, found), <<1>>)
    /\ pc' = "returned"
    /\ UNCHANGED <<tz, trackerVars, timelineVars>>

\* ta.nextFullMoon(fromDate)
NextFullMoon ==
    /\ pc = "idle"
    /\ \E d \in Instants \cup BadDates :
         /\ op' = "nextFullMoon"
         /\ args' = <<d>>
         /\ \E found \in {nextFullMoon(tz, d)} :
              /\ ret' = found
              /\ Called(nextMoonObjects(tz, <<d>>, 1, found), <<1>>)
    /\ pc' = "returned"
    /\ UNCHANGED <<tz, trackerVars, timelineVars>>

\* ta.daysBetween(fromDate, toDate)
DaysBetween ==
    /\ pc = "idle"
    /\ \E a \in PairInstants \cup BadDates, b \in PairInstants \cup BadDates :
         /\ op' = "daysBetween"
         /\ args' = <<a, b>>
         /\ ret' = daysBetween(tz, a, b)
         /\ \E given \in Given(a, b) :
              Called(daysBetweenObjects(tz, given.h, given.refs[1],
                                        given.refs[2]),
                     given.refs)
    /\ pc' = "returned"
    /\ UNCHANGED <<tz, trackerVars, timelineVars>>

\* ta.formatRelativeTime(days)
FormatRelativeTime ==
    /\ pc = "idle"
    /\ \E days \in DayCounts :
         /\ op' = "formatRelativeTime"
         /\ args' = <<days>>
         /\ ret' = formatRelativeTime(days)
    /\ pc' = "returned"
    /\ UNCHANGED <<tz, heap, refs, trackerVars, timelineVars>>

\* ta.findPhaseEvents(startDate, endDate)
FindPhaseEvents ==
    /\ pc = "idle"
    /\ \E a \in RangeStarts \cup BadDates, len \in RangeLengths \cup BadDates :
         /\ op' = "findPhaseEvents"
         /\ args' = <<a, RangeEnd(a, len)>>
         /\ \E found \in {findPhaseEvents(tz, a, RangeEnd(a, len))} :
              /\ ret' = found
              /\ \E given \in Given(a, RangeEnd(a, len)) :
                   Called(findPhaseEventsObjects(tz, given.h, given.refs[1],
                                                 given.refs[2], found),
                          given.refs)
    /\ pc' = "returned"
    /\ UNCHANGED <<tz, trackerVars, timelineVars>>

\* The caller takes the result; the library keeps nothing between calls.
Return ==
    /\ pc = "returned"
    /\ pc' = "idle"
    /\ op' = "none"
    /\ args' = <<>>
    /\ ret' = [status |-> "none"]
    /\ heap' = <<>>
    /\ refs' = NoRefs
    /\ UNCHANGED <<tz, trackerVars, timelineVars>>

Next ==
    \/ MoonPhase
    \/ JulianDay
    \/ PhaseName
    \/ Illumination
    \/ NextNewMoon
    \/ NextFullMoon
    \/ DaysBetween
    \/ FormatRelativeTime
    \/ FindPhaseEvents
    \/ Return

Spec == Init /\ [][Next]_vars

-----------------------------------------------------------------------------
(* The user of a DateTracker: calls, animation frames and the clock *)

TrackerInit ==
    /\ tz \in Zones
    /\ pc = "idle"
    /\ op = "none"
    /\ args = <<>>
    /\ ret = [status |-> "none"]
    /\ heap = <<>>
    /\ refs = NoRefs
    /\ TrackerConstructed(TrackerFirstDate)
    /\ TimelineConstructed(TimelineToday)

\* The tracker and its surroundings as [t, fs, nt].
Here == [t |-> tracker, fs |-> frames, nt |-> notified]

\* The outcome r of a call that sets the date: the new state, and settled
\* is the date d when the call was a successful setDate(d, false).
DateCall(r, animated) ==
    /\ calls' = calls + 1
    /\ tracker' = r.e.t
    /\ frames' = r.e.fs
    /\ notified' = r.e.nt
    /\ settled' = IF r.status = "ok" /\ ~animated THEN r.e.t.currentDate
                  ELSE NoDate
    /\ started' = IF r.status = "ok" /\ animated
                  THEN [n |-> calls + 1, target |-> r.date,
                        startDate |-> tracker.currentDate, done |-> FALSE]
                  ELSE started
    /\ UNCHANGED <<timelineVars, tz, callVars, now>>

\* tracker.setDate(date, animate)
SetDate ==
    /\ calls < MaxCalls
    /\ \E date \in TrackerDates, animated \in BOOLEAN :
         \E r \in {setDate(date, animated, Here, now)} :
           DateCall(r, animated)

\* tracker.addDays(days, animate)
AddDays ==
    /\ calls < MaxCalls
    /\ \E days \in TrackerDayCounts, animated \in BOOLEAN :
         \E r \in {addDays(tz, days, animated, Here, now)} :
           DateCall(r, animated)

\* tracker.goToNextNewMoon(animate)
GoToNextNewMoon ==
    /\ calls < MaxCalls
    /\ \E found \in {nextNewMoon(tz, tracker.currentDate)} :
         \E animated \in BOOLEAN :
           \E r \in {goToNext(found, animated, Here, now)} :
             DateCall(r, animated)

\* tracker.goToNextFullMoon(animate)
GoToNextFullMoon ==
    /\ calls < MaxCalls
    /\ \E found \in {nextFullMoon(tz, tracker.currentDate)} :
         \E animated \in BOOLEAN :
           \E r \in {goToNext(found, animated, Here, now)} :
             DateCall(r, animated)

\* tracker.setAnimationSpeed(speed): throws when speed <= 0, which is false
\* for NaN.
SetAnimationSpeed ==
    /\ calls < MaxCalls
    /\ calls' = calls + 1
    /\ \E speed \in Speeds :
         tracker' = setAnimationSpeed(speed, tracker)
    /\ UNCHANGED <<timelineVars, tz, callVars, frames, notified, now,
                   settled, started>>

\* tracker.stopAnimation()
StopAnimation ==
    /\ calls < MaxCalls
    /\ calls' = calls + 1
    /\ tracker' = stopAnimation(Here).t
    /\ frames' = stopAnimation(Here).fs
    /\ started' = NoAnimation
    /\ UNCHANGED <<timelineVars, tz, callVars, notified, now, settled>>

\* The browser runs a requested animation frame: the closure `animate`.
AnimationFrame ==
    /\ \E f \in frames :
         \E e \in {animate(f,
                           [t |-> [tracker EXCEPT
                                     !.animationId =
                                       IF @ = f.id THEN StaleId ELSE @],
                            fs |-> frames \ {f},
                            nt |-> notified],
                           now)} :
           /\ tracker' = e.t
           /\ frames' = e.fs
           /\ notified' = e.nt
           /\ started' = [started EXCEPT
                            !.done = @ \/ CompletedAt(e, started.target)]
    /\ UNCHANGED <<timelineVars, tz, callVars, now, calls, settled>>

\* Time passes: Date.now() grows by one clock step.
Tick ==
    /\ now < MaxClock
    /\ now' = now + 1
    /\ UNCHANGED <<timelineVars, tz, callVars, tracker, frames,
                   notified, calls, settled, started>>

\* The closure of the requested frame f would find progress < 1 now.
Unfinished(f) ==
    Let(Progress(f, tracker.animationSpeed, now), LAMBDA progress :
        ~IsNaN(progress) /\ RatLt(progress, Rat(1, 1)))

\* Time passes while an animation runs: Date.now() grows by a long while.
Wait ==
    /\ \E f \in frames : Unfinished(f)
    /\ now' = now + LongWait
    /\ UNCHANGED <<timelineVars, tz, callVars, tracker, frames,
                   notified, calls, settled, started>>

TrackerNext ==
    \/ SetDate
    \/ AddDays
    \/ GoToNextNewMoon
    \/ GoToNextFullMoon
    \/ SetAnimationSpeed
    \/ StopAnimation
    \/ AnimationFrame
    \/ Tick
    \/ Wait

TrackerSpec == TrackerInit /\ [][TrackerNext]_vars

\* The tracker in a browser that delivers every requested animation frame
\* and whose clock does not stand still while an animation runs.
TrackerFairSpec ==
    TrackerSpec /\ WF_vars(AnimationFrame) /\ WF_vars(Wait)

-----------------------------------------------------------------------------
(* The user of a Timeline: clicks, the deferred renders and date updates *)

TimelineInit ==
    /\ tz \in Zones
    /\ pc = "idle"
    /\ op = "none"
    /\ args = <<>>
    /\ ret = [status |-> "none"]
    /\ heap = <<>>
    /\ refs = NoRefs
    /\ TrackerConstructed(TrackerFirstDate)
    /\ TimelineConstructed(TimelineToday)

\* A click on the button prev-month.
PrevMonth ==
    /\ clicks < MaxClicks
    /\ clicks' = clicks + 1
    /\ timeline' = render(tz, [timeline EXCEPT !.timelineMonth =
                                 SetMonthPlus(tz, @, 0 - 1)])
    /\ timers' = timers + 1
    /\ UNCHANGED <<tz, callVars, trackerVars, selected>>

\* A click on the button next-month.
NextMonth ==
    /\ clicks < MaxClicks
    /\ clicks' = clicks + 1
    /\ timeline' = render(tz, [timeline EXCEPT !.timelineMonth =
                                 SetMonthPlus(tz, @, 1)])
    /\ timers' = timers + 1
    /\ UNCHANGED <<tz, callVars, trackerVars, selected>>

\* A timer set by render() fires.
RenderTimer ==
    /\ timers > 0
    /\ timers' = timers - 1
    /\ timeline' = renderLater(tz, timeline)
    /\ UNCHANGED <<tz, callVars, trackerVars, selected, clicks>>

\* A click on a phase marker of the track: onDateSelect(new Date(dateStr)).
SelectMarker ==
    /\ \E i \in 1 .. Len(timeline.track) :
         /\ "phase-marker" \in timeline.track[i].classList
         /\ selected' = timeline.track[i].date
    /\ UNCHANGED <<tz, callVars, trackerVars, timeline, timers,
                   clicks>>

\* timeline.updateCurrentDate(date)
UpdateCurrentDate ==
    /\ \E date \in TimelineDates :
         timeline' = updateCurrentDate(tz, timeline, date)
    /\ UNCHANGED <<tz, callVars, trackerVars, timers, selected,
                   clicks>>

TimelineNext ==
    \/ PrevMonth
    \/ NextMonth
    \/ RenderTimer
    \/ SelectMarker
    \/ UpdateCurrentDate

TimelineSpec == TimelineInit /\ [][TimelineNext]_vars

-----------------------------------------------------------------------------
(* Properties *)

Returned(o) == pc = "returned" /\ op = o

\* A search for the next new or full moon has returned a date.
SearchReturned ==
    /\ pc = "returned"
    /\ op \in {"nextNewMoon", "nextFullMoon"}
    /\ ret.status = "ok"

\* The target phase of the search that has returned.
TargetOf(o) == IF o = "nextNewMoon" THEN Rat(0, 1) ELSE Rat(1, 2)

\* Distance of two phases around the cycle.
Circular(p, q) ==
    Let(RatAbsDiff(p, q), LAMBDA diff :
        IF RatGt(diff, Rat(1, 2)) THEN RatOneMinus(diff) ELSE diff)

\* Distance from the target of the phase at the instant t.
TargetDistance(t) == Circular(moonPhase(tz, t), TargetOf(op))

\* C1: nextNewMoon(d) and nextFullMoon(d) return an instant strictly later
\* than d.
C1_ResultStrictlyLater == SearchReturned => ret.date > args[1]

\* C2: the phase at the returned instant is less than 0.02 from the target
\* around the cycle, and no farther from it than the phase at the coarse
\* best instant that was refined.
C2_ResultNearTarget ==
    SearchReturned =>
      /\ RatLt(TargetDistance(ret.date), Rat(1, 50))
      /\ RatLe(TargetDistance(ret.date), TargetDistance(ret.coarse))

\* The refinement has moved the coarse best instant to a strictly better one.
C2_Witness ==
    /\ SearchReturned
    /\ ret.date # ret.coarse
    /\ RatLt(TargetDistance(ret.date), TargetDistance(ret.coarse))

\* C3: moonPhase(d) is a value p with 0 <= p < 1, the remainder of
\* jd - 2451549.5 by the synodic month as a fraction of the synodic month,
\* moved up by 1 when negative: p is (jd - 2451549.5) modulo the synodic
\* month, as a fraction of it.
C3_PhaseInUnitInterval ==
    (Returned("moonPhase") /\ ret.status = "ok") =>
      /\ ret.phase.d = synodicMonth
      /\ 0 <= ret.phase.n
      /\ ret.phase.n < ret.phase.d
      /\ ret.phase.n
           = (JdMinusSec(ret.jd, newMoonJD) * TicksPerSecond) % synodicMonth

\* A date before the reference new moon, where the remainder is negative.
C3_Witness ==
    /\ Returned("moonPhase")
    /\ ret.status = "ok"
    /\ JsRem(JdMinusSec(ret.jd, newMoonJD) * TicksPerSecond, synodicMonth) < 0
    /\ ret.phase.n > 0

\* C4: the search never fails with PhaseNotFound: for a valid date and
\* either target it returns an instant.
C4_SearchAlwaysFinds ==
    (/\ pc = "returned"
     /\ op \in {"nextNewMoon", "nextFullMoon"}
     /\ validateDate(args[1]))
      => ret.status = "ok"

\* A search that scanned more than 28 days before it found its coarse hit.
C4_Witness ==
    /\ SearchReturned
    /\ ret.samples * coarseStep > 28 * 24

\* C5: the Julian Day computed from the calendar fields of a date does not
\* decrease as the date advances: for dates e <= d, the Julian Day of e is
\* at most that of d.
C5_JulianDayMonotone ==
    (Returned("moonPhase") /\ ret.status = "ok") =>
      \A e \in Instants :
        e <= args[1] => JdMinusSec(JdOfDate(tz, e), ret.jd) <= 0

\* The formula of C6, with Y, M the shifted year and month:
\* floor(365.25 (Y + 4716)) + floor(30.6001 (M + 1)) + day
\*   + (hour + minute / 60 + second / 3600) / 24 + b - 1524.5.
ClaimedJulianDay(year, month, day, hour, minute, second) ==
    Let(IF month <= 2 THEN <<year - 1, month + 12>> ELSE <<year, month>>,
        LAMBDA YM :
    Let(2 - YM[1] \div 100 + (YM[1] \div 100) \div 4, LAMBDA b :
        JD(2 * ((1461 * (YM[1] + 4716)) \div 4
                  + (306001 * (YM[2] + 1)) \div 10000 + day + b - 1524) - 1,
           3600 * hour + 60 * minute + second)))

DaysInMonth(y, m) ==
    IF m = 2
    THEN (IF y % 4 = 0 /\ (y % 100 # 0 \/ y % 400 = 0) THEN 29 ELSE 28)
    ELSE IF m \in {4, 6, 9, 11} THEN 30 ELSE 31

\* C6: julianDay returns the value of its formula; julianDay(2000, 1, 1, 12,
\* 0, 0) is 2451545.0; and for a date of the calendar the value is the day
\* count of the proleptic Gregorian calendar (2440587.5 at 1970-01-01 0h)
\* plus the fraction of the day.
C6_JulianDayFormula ==
    (Returned("julianDay") /\ ret.status = "ok") =>
      /\ JdMinusSec(ret.jd, ClaimedJulianDay(args[1], args[2], args[3],
                                             args[4], args[5], args[6])) = 0
      /\ args = <<2000, 1, 1, 12, 0, 0>>
           => JdMinusSec(ret.jd, JD(2 * 2451545, 0)) = 0
      /\ args[3] <= DaysInMonth(args[1], args[2])
           => JdMinusSec(ret.jd,
                         JD(2 * (DaysFromCivil(args[1], args[2], args[3])
                                   + 2440587) + 1,
                            3600 * args[4] + 60 * args[5] + args[6])) = 0

\* The calibration call.
C6_Witness ==
    /\ Returned("julianDay")
    /\ ret.status = "ok"
    /\ args = <<2000, 1, 1, 12, 0, 0>>
    /\ ret.jd = JD(2 * 2451545 - 1, 12 * 3600)

\* C7: findPhaseEvents(start, end) returns only events with
\* start <= date <= end, in strictly increasing order of date, and returns
\* the empty sequence, with no error, when end < start.
C7_EventsInRangeAndOrdered ==
    (/\ Returned("findPhaseEvents")
     /\ validateDate(args[1]) /\ validateDate(args[2])) =>
      /\ ret.status = "ok"
      /\ \A i \in 1 .. Len(ret.events) :
           args[1] <= ret.events[i].date /\ ret.events[i].date <= args[2]
      /\ \A i \in 1 .. Len(ret.events) - 1 :
           ret.events[i].date < ret.events[i + 1].date
      /\ args[2] < args[1] => ret.events = <<>>

\* The phase type of the day of t, as the loop computes it.
TypeOfDay(t) ==
    PhaseType(moonPhase(tz, t), moonPhase(tz, SetDatePlus(tz, t, 0 - 1)),
              moonPhase(tz, SetDatePlus(tz, t, 1)))

\* Several events were returned, and the scan met an event on a padding day
\* before start or after end, which it did not return.
C7_Witness ==
    /\ Returned("findPhaseEvents")
    /\ ret.status = "ok"
    /\ Len(ret.events) >= 2
    /\ \E n \in {0 - 2, 0 - 1} : TypeOfDay(SetDatePlus(tz, args[1], n)) # ""
    /\ \A i \in 1 .. Len(ret.events) : ret.events[i].date >= args[1]

\* C8: daysBetween(d, d) = 0; daysBetween(a, b) = -daysBetween(b, a); the
\* result is the difference of the two local midnights, in days, rounded to
\* the nearest integer, so that the times of day of a and b have no effect.
C8_DaysBetweenAntisymmetric ==
    (Returned("daysBetween") /\ ret.status = "ok") =>
      /\ args[1] = args[2] => ret.days = 0
      /\ daysBetween(tz, args[2], args[1]).days = 0 - ret.days
      /\ 2 * Abs(LocalMidnight(tz, args[2]) - LocalMidnight(tz, args[1])
                   - ret.days * msPerDay) <= msPerDay
      /\ daysBetween(tz, LocalMidnight(tz, args[1]),
                     LocalMidnight(tz, args[2])).days = ret.days

\* The two midnights are not a whole number of days apart (the zone's offset
\* changed between them), and the two dates are not at midnight.
C8_Witness ==
    /\ Returned("daysBetween")
    /\ ret.status = "ok"
    /\ ret.days # 0
    /\ (LocalMidnight(tz, args[2]) - LocalMidnight(tz, args[1])) % msPerDay # 0
    /\ LocalMidnight(tz, args[1]) # args[1]
    /\ LocalMidnight(tz, args[2]) # args[2]

\* new Date(d.getTime() + 29.53058868 * 86400000): the time value is cut to
\* whole milliseconds, then to ticks.
PlusSynodicMonth(d) ==
    d + SynodicMonthSec * TicksPerSecond
      + ((SynodicMonthMicro \div 1000) * TicksPerSecond) \div 1000

\* C9 as stated: |moonPhase(d) - moonPhase(d + synodic month)| < 0.02.
C9_PlainDifferenceSmall ==
    (Returned("moonPhase") /\ ret.status = "ok") =>
      RatLt(RatAbsDiff(ret.phase, moonPhase(tz, PlusSynodicMonth(args[1]))),
            Rat(1, 50))

\* C9, amended: moonPhase(d) and moonPhase(d + synodic month) are less than
\* 0.02 apart around the cycle (0 and 1 being the same phase).
C9_CircularDifferenceSmall ==
    (Returned("moonPhase") /\ ret.status = "ok") =>
      RatLt(Circular(ret.phase, moonPhase(tz, PlusSynodicMonth(args[1]))),
            Rat(1, 50))

\* The two phases lie on the two sides of the 0/1 point.
C9_Witness ==
    /\ Returned("moonPhase")
    /\ ret.status = "ok"
    /\ RatGt(RatAbsDiff(ret.phase, moonPhase(tz, PlusSynodicMonth(args[1]))),
             Rat(1, 2))

\* The bands of C10: lower bound (inclusive), upper bound, label.  The last
\* band includes its upper bound 1.
Bands ==
    << <<Rat(0, 10000), Rat(625, 10000), "New Moon">>,
       <<Rat(625, 10000), Rat(1875, 10000), "Waxing Crescent">>,
       <<Rat(1875, 10000), Rat(3125, 10000), "First Quarter">>,
       <<Rat(3125, 10000), Rat(4375, 10000), "Waxing Gibbous">>,
       <<Rat(4375, 10000), Rat(5625, 10000), "Full Moon">>,
       <<Rat(5625, 10000), Rat(6875, 10000), "Waning Gibbous">>,
       <<Rat(6875, 10000), Rat(8125, 10000), "Last Quarter">>,
       <<Rat(8125, 10000), Rat(9375, 10000), "Waning Crescent">>,
       <<Rat(9375, 10000), Rat(10000, 10000), "New Moon">> >>

InBand(p, i) ==
    /\ RatLe(Bands[i][1], p)
    /\ IF i = Len(Bands) THEN RatLe(p, Bands[i][2]) ELSE RatLt(p, Bands[i][2])

\* C10: for 0 <= p <= 1, p lies in exactly one band and phaseName(p) is the
\* label of that band.
C10_PhaseNameBands ==
    (Returned("phaseName") /\ args[1] # NaNNumber
       /\ RatLe(Rat(0, 1), args[1]) /\ RatLe(args[1], Rat(1, 1))) =>
      /\ ret.status = "ok"
      /\ \E i \in 1 .. Len(Bands) :
           /\ InBand(args[1], i)
           /\ ret.name = Bands[i][3]
           /\ \A j \in 1 .. Len(Bands) : InBand(args[1], j) => j = i

\* A phase that is the lower bound of a band other than the first.
C10_Witness ==
    /\ Returned("phaseName")
    /\ ret.status = "ok"
    /\ RatEq(args[1], Rat(1875, 10000))
    /\ ret.name = "First Quarter"

\* C11: julianDay fails with InvalidInput exactly when month is outside
\* 1..12, or day is outside 1..31, or year < -4712, and then computes
\* nothing; for every other combination of integer arguments it returns a
\* number.
C11_JulianDayRejects ==
    Returned("julianDay") =>
      IF args[2] \notin 1 .. 12 \/ args[3] \notin 1 .. 31 \/ args[1] < 0 - 4712
      THEN ret = [status |-> "InvalidInput"]
      ELSE /\ ret.status = "ok"
           /\ ret.jd.half \in Int
           /\ ret.jd.sec \in 0 .. SecPerDay - 1

\* The scenario of the claim (month = 13), and a call rejected for its year
\* alone.
C11_Witness ==
    /\ Returned("julianDay")
    /\ ret.status = "InvalidInput"
    /\ \/ args[2] = 13
       \/ args[1] = 0 - 4713 /\ args[2] = 1 /\ args[3] = 1

\* The labels of phaseName.
PhaseLabels ==
    {"New Moon", "Waxing Crescent", "First Quarter", "Waxing Gibbous",
     "Full Moon", "Waning Gibbous", "Last Quarter", "Waning Crescent"}

\* C12: phaseName(p) and illumination(p) fail with InvalidInput for every
\* p < 0 and every p > 1, returning no label and no percentage; for every p
\* with 0 <= p <= 1 they return a label, or a percentage from 0 to 100.
C12_PhaseArgumentRejected ==
    (pc = "returned" /\ op \in {"phaseName", "illumination"}
       /\ args[1].d > 0) =>
      IF args[1].n < 0 \/ args[1].n > args[1].d
      THEN ret = [status |-> "InvalidInput"]
      ELSE /\ ret.status = "ok"
           /\ op = "phaseName" => ret.name \in PhaseLabels
           /\ op = "illumination" =>
                 /\ RatLe(Rat(0, 1), ret.percent)
                 /\ RatLe(ret.percent, Rat(100, 1))

\* illumination(1.5) is rejected.
C12_Witness ==
    /\ Returned("illumination")
    /\ args[1] = Rat(3, 2)
    /\ ret.status = "InvalidInput"

\* A finite number: a number that is neither NaN nor an infinity.
IsFinite(v) == IsNumber(v) /\ v.d # 0

\* C13: formatRelativeTime(days) fails with InvalidInput, and produces no
\* string, whenever days is not a finite number (NaN, +Infinity, -Infinity,
\* or not a number).
C13_NonFiniteDaysRejected ==
    (Returned("formatRelativeTime") /\ ~IsFinite(args[1])) =>
      ret = [status |-> "InvalidInput"]

\* The decimal numeral of a whole number from 0 to 999, digit by digit.
Numeral(n) ==
    IF n < 10 THEN Digit(n)
    ELSE IF n < 100 THEN Digit(n \div 10) \o Digit(n % 10)
    ELSE Digit(n \div 100) \o Digit((n \div 10) % 10) \o Digit(n % 10)

\* C15: for a whole number n, formatRelativeTime(n) is "Today" for 0,
\* "Tomorrow" for 1, "Yesterday" for -1, "In {n} days" for n > 1 and
\* "{|n|} days ago" for n < -1; so 5 gives "In 5 days" and -3 gives
\* "3 days ago".
C15_RelativeTimeText ==
    (Returned("formatRelativeTime") /\ IsFinite(args[1]) /\ args[1].d = 1) =>
      /\ ret.status = "ok"
      /\ args[1].n = 0 => ret.text = "Today"
      /\ args[1].n = 1 => ret.text = "Tomorrow"
      /\ args[1].n = 0 - 1 => ret.text = "Yesterday"
      /\ args[1].n > 1 => ret.text = "In " \o Numeral(args[1].n) \o " days"
      /\ args[1].n < 0 - 1 =>
            ret.text = Numeral(0 - args[1].n) \o " days ago"
      /\ args[1].n = 5 => ret.text = "In 5 days"
      /\ args[1].n = 0 - 3 => ret.text = "3 days ago"
      /\ args[1].n = 0 - 100 => ret.text = "100 days ago"

\* formatRelativeTime(-3) has returned "3 days ago".
C15_Witness ==
    /\ Returned("formatRelativeTime")
    /\ args[1] = Rat(0 - 3, 1)
    /\ ret = [status |-> "ok", text |-> "3 days ago"]

\* The date parameters of the operations that take dates, in argument
\* order.
DateParams ==
    [moonPhase |-> <<"date">>,
     nextNewMoon |-> <<"fromDate">>,
     nextFullMoon |-> <<"fromDate">>,
     daysBetween |-> <<"fromDate", "toDate">>,
     findPhaseEvents |-> <<"startDate", "endDate">>]

\* The positions of the malformed date arguments of the call.
MalformedArgs == {i \in 1 .. Len(args) : args[i] \in {NaNDate, NotADate}}

\* C14: moonPhase, nextNewMoon, nextFullMoon, daysBetween and
\* findPhaseEvents fail with InvalidInput when a date argument is malformed
\* (not a Date, or a Date whose time value is NaN), compute nothing, and
\* name the first malformed parameter in argument order; with well-formed
\* dates they do not fail with InvalidInput.
C14_DatesValidatedFirst ==
    (pc = "returned" /\ op \in DOMAIN DateParams) =>
      IF MalformedArgs = {}
      THEN ret.status # "InvalidInput"
      ELSE ret = [status |-> "InvalidInput",
                  param |-> DateParams[op][
                    CHOOSE i \in MalformedArgs :
                      \A j \in MalformedArgs : i <= j]]

\* A two-date call with both dates malformed has reported its first.
C14_Witness ==
    /\ pc = "returned"
    /\ op \in {"daysBetween", "findPhaseEvents"}
    /\ MalformedArgs = {1, 2}
    /\ ret.param \in {"fromDate", "startDate"}

\* |p - t| < 0.05 and |p - t| > 0.05 for the target t = k / 20, as
\* t - 0.05 < p < t + 0.05 and as p < t - 0.05 or p > t + 0.05.
Within(p, k) == RatLt(Rat(k - 1, 20), p) /\ RatLt(p, Rat(k + 1, 20))

Beyond(p, k) == RatLt(p, Rat(k - 1, 20)) \/ RatLt(Rat(k + 1, 20), p)

\* The hit test of C16 for a target k / 20 other than the new moon.
TargetHit(p, pp, pn, k) == Within(p, k) /\ (Beyond(pp, k) \/ Beyond(pn, k))

\* The classification of C16, "" standing for no event.
ClaimedType(p, pp, pn) ==
    IF RatLt(p, Rat(1, 20))
       /\ (RatGt(pp, Rat(19, 20)) \/ RatGt(pn, Rat(1, 20)))
    THEN "new-moon"
    ELSE IF TargetHit(p, pp, pn, 10) THEN "full-moon"
    ELSE IF TargetHit(p, pp, pn, 5) \/ TargetHit(p, pp, pn, 15)
    THEN "quarter"
    ELSE ""

\* The events of C16 for the scanned days from t on: one calendar day at a
\* time, an event for each day within [startDate, endDate] that the
\* classification gives a type.
RECURSIVE ClaimedEvents(_, _, _)
ClaimedEvents(t, startDate, endDate) ==
    IF t > endDate THEN <<>>
    ELSE Let(ClaimedType(moonPhase(tz, t),
                         moonPhase(tz, SetDatePlus(tz, t, 0 - 1)),
                         moonPhase(tz, SetDatePlus(tz, t, 1))),
             LAMBDA type :
             (IF type # "" /\ t >= startDate
              THEN <<[date |-> t, type |-> type, phase |-> moonPhase(tz, t)]>>
              ELSE <<>>)
               \o ClaimedEvents(SetDatePlus(tz, t, 1), startDate, endDate))

\* C16: findPhaseEvents scans one calendar day at a time from start - 2 days
\* and returns, in order, one event for each scanned day within
\* [start, end] that the classification of the claim gives a type
\* (new-moon, else full-moon, else quarter for 0.25 or 0.75), with that
\* type and with the phase of the day's instant; hits on adjacent days are
\* all kept.
C16_EventsClassified ==
    (Returned("findPhaseEvents") /\ ret.status # "InvalidInput") =>
      /\ ret.status = "ok"
      /\ ret.events =
           ClaimedEvents(SetDatePlus(tz, args[1], 0 - 2), args[1], args[2])

\* Two events of one type on adjacent days, and a quarter at 0.75.
C16_Witness ==
    /\ Returned("findPhaseEvents")
    /\ ret.status = "ok"
    /\ \E i \in 1 .. Len(ret.events) - 1 :
         /\ ret.events[i].type = ret.events[i + 1].type
         /\ ret.events[i + 1].date - ret.events[i].date <= 25 * TicksPerHour
    /\ \E i \in 1 .. Len(ret.events) :
         /\ ret.events[i].type = "quarter"
         /\ RatGt(ret.events[i].phase, Rat(1, 2))

\* The number of samples the coarse loop's condition allows: the values
\* hours = 0, 2, 4, ... for which the loop continues.
WindowSamples ==
    Cardinality({i \in 0 .. 24 * 31 : CoarseContinues(coarseStep * i)})

\* C17 as stated: a search evaluates at most 355 coarse samples, the coarse
\* window being about 709.92 hours (355 two-hour samples), and at most 49
\* refinement samples.
C17_WindowOf355Samples ==
    SearchReturned =>
      /\ ret.samples <= 355
      /\ WindowSamples <= 355
      /\ ret.refined <= 49

\* C17, amended: the coarse window is synodic month + 1 day = 30.53 days =
\* 732.72 hours, which allows 367 two-hour samples; a search returns from
\* inside the loop after at most 355 of them, and the refinement evaluates
\* at most 49 thirty-minute samples.
C17_SearchBounded ==
    /\ SearchReturned =>
         /\ ret.samples <= 355
         /\ ret.samples <= WindowSamples
         /\ ret.refined <= 49
    /\ pc = "returned" /\ op \in {"nextNewMoon", "nextFullMoon"} =>
         /\ ret.status \in {"ok", "InvalidInput"}
         /\ WindowSamples = 367
         /\ maxDays * 24 = 73272

\* A search that has scanned more than 28 days and refined over the whole
\* window.
C17_Witness ==
    /\ SearchReturned
    /\ ret.samples >= 340
    /\ ret.refined = 49

\* C18: after any sequence of calls of the tracker (setDate, addDays,
\* goToNextNewMoon, goToNextFullMoon, stopAnimation) and animation frames,
\* the tracker's current date is a valid date.
C18_CurrentDateValid == validateDate(tracker.currentDate)

\* C19: after setDate(d, false) has returned, the current date is d until
\* the next call of setDate, addDays, goToNextNewMoon or goToNextFullMoon,
\* whatever animation frames run in between.
C19_SettledDateStays ==
    settled # NoDate => tracker.currentDate = settled

\* The children of the track that carry the class c, in order.
MarkersOf(c) ==
    SelectSeq(timeline.track, LAMBDA marker : c \in marker.classList)

\* C20: once no render timer is pending, the track holds one set of markers
\* for the displayed month: as many day markers as the month has days, one
\* phase marker per phase event of the month, and nothing else.
C20_OneSetOfMarkers ==
    timers = 0 =>
      Let(Fields(tz, timeline.timelineMonth), LAMBDA f :
      Let(findPhaseEvents(tz, NewDate(tz, f.year, f.month, 1),
                          NewDate(tz, f.year, f.month,
                                  DaysInMonth(f.year, f.month))).events,
          LAMBDA events :
          /\ Len(MarkersOf("day-marker")) = DaysInMonth(f.year, f.month)
          /\ Len(MarkersOf("phase-marker")) = Len(events)
          /\ \A i \in 1 .. Len(events) :
                MarkersOf("phase-marker")[i].date = events[i].date
          /\ Len(timeline.track)
                = DaysInMonth(f.year, f.month) + Len(events)))

\* The animation begun by call n is the tracker's latest, not stopped since,
\* and its target differs from the date it started from.
Animating(n) == started.n = n /\ started.target # started.startDate

\* The animation speed is a finite number.
FiniteSpeed == tracker.animationSpeed.d # 0

CoreOperations ==
    {"moonPhase", "nextNewMoon", "nextFullMoon", "daysBetween",
     "findPhaseEvents"}

\* The time values of the Dates in the result of the call, in order.
ReturnedDates ==
    IF op \in {"nextNewMoon", "nextFullMoon"} /\ ret.status = "ok"
    THEN <<ret.date>>
    ELSE IF op = "findPhaseEvents" /\ ret.status # "InvalidInput"
    THEN [i \in 1 .. Len(ret.events) |-> ret.events[i].date]
    ELSE <<>>

\* C22: when moonPhase, nextNewMoon, nextFullMoon, daysBetween or
\* findPhaseEvents has returned, every Date argument has the time value it
\* was given with, every returned Date (each event's date) is an object
\* that is no argument and no other returned Date, and once the caller has
\* taken the result nothing of the call remains.
C22_ArgumentsKeptResultsFresh ==
    /\ (pc = "returned" /\ op \in CoreOperations) =>
         /\ Len(refs.args) = Len(args)
         /\ \A k \in DOMAIN args : heap[refs.args[k]] = args[k]
         /\ Len(refs.ret) = Len(ReturnedDates)
         /\ \A i \in DOMAIN refs.ret :
              /\ heap[refs.ret[i]] = ReturnedDates[i]
              /\ \A k \in DOMAIN refs.args : refs.ret[i] # refs.args[k]
              /\ \A j \in DOMAIN refs.ret :
                   j # i => refs.ret[j] # refs.ret[i]
    /\ pc = "idle" => heap = <<>> /\ refs = NoRefs /\ ret.status = "none"

\* findPhaseEvents has returned several events for a range given as two
\* objects, after stepping its own copy of the start date.
C22_Witness ==
    /\ Returned("findPhaseEvents")
    /\ refs.args = <<1, 2>>
    /\ Len(refs.ret) >= 2
    /\ heap[3] # heap[1]
====
